---- MODULE Spec2Model ----
(***************************************************************************)
(* Model of the entropy helper of wordle-helper:                           *)
(*   src/src/entropy-wasm/entropy.cpp   class EntropyCalculator            *)
(*   src/entropy-compiled.cpp           the same getPattern/calculateEntropy*)
(*   src/entropy-wasm-simple.cpp        get_pattern (C export)             *)
(*                                                                         *)
(* Characters are one-character strings, a std::string / C string is a     *)
(* sequence of characters, indices are 0-based as in the source.           *)
(* A double holding an entropy is kept exactly: for N candidates whose     *)
(* patterns occur c_1..c_k times, H = -SUM (c_i/N) log2(c_i/N), so         *)
(* 2^(N*H) = N^N / PROD c_i^c_i; the model keeps [n |-> N, d |-> PROD].    *)
(***************************************************************************)
EXTENDS Integers, Sequences, FiniteSets, TLC

VARIABLES allWords, possibleAnswers, lastSet, input, op, args, ret

vars == <<allWords, possibleAnswers, lastSet, input, op, args, ret>>

(***************************************************************************)
(* Bounds of the model                                                     *)
(***************************************************************************)
MaxLen == 3
MaxWords == 2
MaxDict == 2
MaxCand == 3
MaxObjWords == 1

(***************************************************************************)
(* Program constants                                                       *)
(***************************************************************************)
AlphabetSize == 26
UsedSize == 10

(***************************************************************************)
(* Characters                                                              *)
(***************************************************************************)
UpperSeq == << "A","B","C","D","E","F","G","H","I","J","K","L","M",
               "N","O","P","Q","R","S","T","U","V","W","X","Y","Z" >>
LowerSeq == << "a","b","c","d","e","f","g","h","i","j","k","l","m",
               "n","o","p","q","r","s","t","u","v","w","x","y","z" >>
Alphabet == {UpperSeq[k] : k \in 1..AlphabetSize}
NUL == "\\0"

\* c - 'A' for an uppercase letter
Ord(c) == (CHOOSE k \in 1..AlphabetSize : UpperSeq[k] = c) - 1

toupper(c) ==
    IF \E k \in 1..AlphabetSize : LowerSeq[k] = c
    THEN UpperSeq[CHOOSE k \in 1..AlphabetSize : LowerSeq[k] = c]
    ELSE c

\* std::transform(word.begin(), word.end(), word.begin(), ::toupper)
ToUpperStr(word) == [k \in 1..Len(word) |-> toupper(word[k])]

ToUpperAll(list) == [k \in 1..Len(list) |-> ToUpperStr(list[k])]

Lists(S, n) == UNION {[1..k -> S] : k \in 0..n}

Min(a, b) == IF a <= b THEN a ELSE b

RECURSIVE Pow(_, _)
Pow(b, e) == IF e <= 0 THEN 1 ELSE b * Pow(b, e - 1)

(***************************************************************************)
(* getPattern (std::string, per-letter frequency counts)                   *)
(***************************************************************************)
\* target[i] of a const std::string: the character, the terminator at
\* i = size(), and an out-of-bounds read (any value: junk) past it
TargetAt(target, i, junk) ==
    IF i < Len(target) THEN target[i + 1]
    ELSE IF i = Len(target) THEN NUL
    ELSE junk

CountFreq(target) ==
    [c \in Alphabet |-> Cardinality({k \in 1..Len(target) : target[k] = c})]

RECURSIVE GreenPass(_, _, _, _, _)
GreenPass(guess, target, junk, i, st) ==
    IF i >= Len(guess) THEN st
    ELSE IF guess[i + 1] = TargetAt(target, i, junk)
         THEN GreenPass(guess, target, junk, i + 1,
                  [result     |-> [st.result EXCEPT ![i + 1] = "G"],
                   targetFreq |-> [st.targetFreq EXCEPT ![guess[i + 1]] = @ - 1]])
         ELSE GreenPass(guess, target, junk, i + 1, st)

RECURSIVE YellowPass(_, _, _)
YellowPass(guess, i, st) ==
    IF i >= Len(guess) THEN st
    ELSE IF st.result[i + 1] = "B" /\ st.targetFreq[guess[i + 1]] > 0
         THEN YellowPass(guess, i + 1,
                  [result     |-> [st.result EXCEPT ![i + 1] = "Y"],
                   targetFreq |-> [st.targetFreq EXCEPT ![guess[i + 1]] = @ - 1]])
         ELSE YellowPass(guess, i + 1, st)

\* a single pass that marks greens and yellows together
RECURSIVE OnePass(_, _, _, _, _)
OnePass(guess, target, junk, i, st) ==
    IF i >= Len(guess) THEN st
    ELSE IF guess[i + 1] = TargetAt(target, i, junk)
         THEN OnePass(guess, target, junk, i + 1,
                  [result     |-> [st.result EXCEPT ![i + 1] = "G"],
                   targetFreq |-> [st.targetFreq EXCEPT ![guess[i + 1]] = @ - 1]])
         ELSE IF st.targetFreq[guess[i + 1]] > 0
         THEN OnePass(guess, target, junk, i + 1,
                  [result     |-> [st.result EXCEPT ![i + 1] = "Y"],
                   targetFreq |-> [st.targetFreq EXCEPT ![guess[i + 1]] = @ - 1]])
         ELSE OnePass(guess, target, junk, i + 1, st)

getPattern_onePass(guess, target, junk) ==
    OnePass(guess, target, junk, 0,
            [result |-> [k \in 1..Len(guess) |-> "B"],
             targetFreq |-> CountFreq(target)]).result

getPattern(guess, target, junk) ==
    YellowPass(guess, 0,
        GreenPass(guess, target, junk, 0,
            [result |-> [k \in 1..Len(guess) |-> "B"],
             targetFreq |-> CountFreq(target)])).result

\* getPattern reads target[i] for every i < guess.length()
getPatternReadsOutOfBounds(guess, target) == Len(guess) > Len(target) + 1

(***************************************************************************)
(* get_pattern (C strings, position-marking used[] array, base-3 integer)  *)
(***************************************************************************)
\* s[i] of a NUL-terminated C string
CAt(s, i, junk) ==
    IF i < Len(s) THEN s[i + 1]
    ELSE IF i = Len(s) THEN NUL
    ELSE junk

RECURSIVE ExactPass(_, _, _, _, _, _, _)
ExactPass(guess, answer, n, jg, ja, i, st) ==
    IF i >= n THEN st
    ELSE IF CAt(guess, i, jg) = CAt(answer, i, ja)
         THEN ExactPass(guess, answer, n, jg, ja, i + 1,
                  [pattern |-> st.pattern + 2 * Pow(3, n - 1 - i),
                   used    |-> [st.used EXCEPT ![i] = TRUE]])
         ELSE ExactPass(guess, answer, n, jg, ja, i + 1, st)

\* the exact pass without used[i] = true
RECURSIVE ExactPass_noMark(_, _, _, _, _, _, _)
ExactPass_noMark(guess, answer, n, jg, ja, i, st) ==
    IF i >= n THEN st
    ELSE IF CAt(guess, i, jg) = CAt(answer, i, ja)
         THEN ExactPass_noMark(guess, answer, n, jg, ja, i + 1,
                  [pattern |-> st.pattern + 2 * Pow(3, n - 1 - i),
                   used    |-> st.used])
         ELSE ExactPass_noMark(guess, answer, n, jg, ja, i + 1, st)

RECURSIVE PresentPass(_, _, _, _, _, _, _)
PresentPass(guess, answer, n, jg, ja, i, st) ==
    IF i >= n THEN st
    ELSE LET free == {j \in 0..(n - 1) :
                        ~st.used[j] /\ CAt(guess, i, jg) = CAt(answer, j, ja)}
         IN IF CAt(guess, i, jg) # CAt(answer, i, ja) /\ free # {}
            THEN LET j == CHOOSE x \in free : \A y \in free : x <= y
                 IN PresentPass(guess, answer, n, jg, ja, i + 1,
                        [pattern |-> st.pattern + 1 * Pow(3, n - 1 - i),
                         used    |-> [st.used EXCEPT ![j] = TRUE]])
            ELSE PresentPass(guess, answer, n, jg, ja, i + 1, st)

get_pattern_noMark(guess, answer, n, jg, ja) ==
    PresentPass(guess, answer, n, jg, ja, 0,
        ExactPass_noMark(guess, answer, n, jg, ja, 0,
            [pattern |-> 0, used |-> [j \in 0..(UsedSize - 1) |-> FALSE]])).pattern

get_pattern(guess, answer, n, jg, ja) ==
    PresentPass(guess, answer, n, jg, ja, 0,
        ExactPass(guess, answer, n, jg, ja, 0,
            [pattern |-> 0, used |-> [j \in 0..(UsedSize - 1) |-> FALSE]])).pattern

\* get_pattern reads guess[i], answer[i] for i < word_length and used[i]
get_patternReadsOutOfBounds(guess, answer, n) ==
    n > Len(guess) + 1 \/ n > Len(answer) + 1 \/ n > UsedSize

(***************************************************************************)
(* The two pattern encoders as operations                                  *)
(***************************************************************************)
PatLetters == {"A", "B", "C"}
Junk == {NUL, "A", "B"}
PatWords == Lists(PatLetters, MaxLen)

GetPattern ==
    /\ op = "input"
    /\ op' = "getPattern"
    /\ args' = [guess |-> input.guess, target |-> input.target]
    /\ ret' = [kind |-> "pattern",
               value |-> getPattern(input.guess, input.target, input.junkT)]
    /\ UNCHANGED <<allWords, possibleAnswers, lastSet, input>>

GetPatternTrap ==
    /\ op = "input"
    /\ getPatternReadsOutOfBounds(input.guess, input.target)
    /\ op' = "getPattern"
    /\ args' = [guess |-> input.guess, target |-> input.target]
    /\ ret' = [kind |-> "trap"]
    /\ UNCHANGED <<allWords, possibleAnswers, lastSet, input>>

Get_pattern ==
    /\ op = "input"
    /\ op' = "get_pattern"
    /\ args' = [guess |-> input.guess, target |-> input.target,
                word_length |-> input.word_length]
    /\ ret' = [kind |-> "int",
               value |-> get_pattern(input.guess, input.target, input.word_length,
                                     input.junkG, input.junkT)]
    /\ UNCHANGED <<allWords, possibleAnswers, lastSet, input>>

Get_patternTrap ==
    /\ op = "input"
    /\ get_patternReadsOutOfBounds(input.guess, input.target, input.word_length)
    /\ op' = "get_pattern"
    /\ args' = [guess |-> input.guess, target |-> input.target,
                word_length |-> input.word_length]
    /\ ret' = [kind |-> "trap"]
    /\ UNCHANGED <<allWords, possibleAnswers, lastSet, input>>

InitPattern ==
    /\ allWords = <<>>
    /\ possibleAnswers = <<>>
    /\ lastSet = [allWordsJS |-> <<>>, possibleAnswersJS |-> <<>>]
    /\ input \in [guess : PatWords, target : PatWords, word_length : 0..MaxLen,
                  junkG : Junk, junkT : Junk]
    /\ op = "input"
    /\ args = <<>>
    /\ ret = [kind |-> "none"]

NextPattern == GetPattern \/ GetPatternTrap \/ Get_pattern \/ Get_patternTrap

SpecPattern == InitPattern /\ [][NextPattern]_vars

(***************************************************************************)
(* filterWords                                                             *)
(***************************************************************************)
\* a value converted to size_t (32 bits), kept as two 16-bit halves
ToSizeT(v) ==
    IF v >= 0 THEN [hi |-> v \div 65536, lo |-> v % 65536]
    ELSE [hi |-> 65535 - ((-v - 1) \div 65536),
          lo |-> 65535 - ((-v - 1) % 65536)]

SizeTLess(a, b) == a.hi < b.hi \/ (a.hi = b.hi /\ a.lo < b.lo)

\* the comparison done on the ints, without the conversion to size_t
PosBelowLength_signed(pos, length) == pos < length

\* pos < word.length(): int against size_t, compared as size_t
PosBelowLength(pos, length) == SizeTLess(ToSizeT(pos), ToSizeT(length))

\* word.find(c) != std::string::npos
Contains(word, c) == \E k \in 1..Len(word) : word[k] = c

\* s[0] of a std::string (the terminator when s is empty)
FirstChar(s) == IF Len(s) = 0 THEN NUL ELSE s[1]

\* lines 190-195: known positions, up to the shorter of the two lengths
GreenOK(word, knownPositions) ==
    \A i \in 0..(Min(Len(knownPositions), Len(word)) - 1) :
        ~(Len(knownPositions[i + 1]) # 0
            /\ word[i + 1] # knownPositions[i + 1][1])

\* lines 211-216: [valid, oob]; oob records a read word[pos] with pos not an
\* index of word
RECURSIVE ExcludedLoop(_, _, _, _)
ExcludedLoop(word, letter, excludedPositions, k) ==
    IF k > Len(excludedPositions) THEN [valid |-> TRUE, oob |-> FALSE]
    ELSE LET pos == excludedPositions[k]
         IN IF PosBelowLength(pos, Len(word))
            THEN IF pos < 0 \/ pos >= Len(word)
                 THEN [valid |-> TRUE, oob |-> TRUE]
                 ELSE IF word[pos + 1] = letter
                      THEN [valid |-> FALSE, oob |-> FALSE]
                      ELSE ExcludedLoop(word, letter, excludedPositions, k + 1)
            ELSE ExcludedLoop(word, letter, excludedPositions, k + 1)

\* the yellow check without "the word must contain the letter"
RECURSIVE YellowLoop_noContains(_, _, _)
YellowLoop_noContains(word, yellowLetters, k) ==
    IF k > Len(yellowLetters) THEN [valid |-> TRUE, oob |-> FALSE]
    ELSE LET yellow == yellowLetters[k]
             e == ExcludedLoop(word, yellow.letter, yellow.excludedPositions, 1)
         IN IF ~e.valid THEN e
            ELSE LET rest == YellowLoop_noContains(word, yellowLetters, k + 1)
                 IN [valid |-> rest.valid, oob |-> e.oob \/ rest.oob]

\* lines 200-218
RECURSIVE YellowLoop(_, _, _)
YellowLoop(word, yellowLetters, k) ==
    IF k > Len(yellowLetters) THEN [valid |-> TRUE, oob |-> FALSE]
    ELSE LET yellow == yellowLetters[k]
         IN IF ~Contains(word, yellow.letter)
            THEN [valid |-> FALSE, oob |-> FALSE]
            ELSE LET e == ExcludedLoop(word, yellow.letter,
                                       yellow.excludedPositions, 1)
                 IN IF ~e.valid THEN e
                    ELSE LET rest == YellowLoop(word, yellowLetters, k + 1)
                         IN [valid |-> rest.valid, oob |-> e.oob \/ rest.oob]

\* lines 223-228
GrayOK(word, grayLetters) ==
    \A k \in 1..Len(grayLetters) :
        ~(Len(grayLetters[k]) # 0 /\ Contains(word, grayLetters[k][1]))

\* lines 186-232, one word
CheckWord(word, knownPositions, yellowLetters, grayLetters) ==
    IF ~GreenOK(word, knownPositions) THEN [valid |-> FALSE, oob |-> FALSE]
    ELSE LET y == YellowLoop(word, yellowLetters, 1)
         IN IF ~y.valid THEN y
            ELSE [valid |-> GrayOK(word, grayLetters), oob |-> y.oob]

\* lines 168-180
ConvertYellow(yellowLettersJS) ==
    [k \in 1..Len(yellowLettersJS) |->
        [letter |-> toupper(FirstChar(yellowLettersJS[k].letter)),
         excludedPositions |-> yellowLettersJS[k].excludedPositions]]

RECURSIVE Filtered(_, _, _)
Filtered(words, checks, k) ==
    IF k > Len(words) THEN <<>>
    ELSE (IF checks[k].valid THEN <<words[k]>> ELSE <<>>)
            \o Filtered(words, checks, k + 1)

\* the loop over the words starting at the second one
filterWords_skipFirst(wordsJS, knownPositionsJS, yellowLettersJS, grayLettersJS) ==
    LET words == ToUpperAll(wordsJS)
        checks == [k \in 1..Len(words) |->
                      CheckWord(words[k], ToUpperAll(knownPositionsJS),
                                ConvertYellow(yellowLettersJS),
                                ToUpperAll(grayLettersJS))]
    IN [kind |-> "array",
        value |-> Filtered(words, checks, 2),
        oob |-> \E k \in 2..Len(words) : checks[k].oob]

filterWords(wordsJS, knownPositionsJS, yellowLettersJS, grayLettersJS) ==
    LET words == ToUpperAll(wordsJS)
        checks == [k \in 1..Len(words) |->
                      CheckWord(words[k], ToUpperAll(knownPositionsJS),
                                ConvertYellow(yellowLettersJS),
                                ToUpperAll(grayLettersJS))]
    IN [kind |-> "array",
        value |-> Filtered(words, checks, 1),
        oob |-> \E k \in 1..Len(words) : checks[k].oob]

FilterCall(name, wordsJS, knownPositionsJS, yellowLettersJS, grayLettersJS) ==
    /\ op' = name
    /\ args' = [words |-> wordsJS, knownPositions |-> knownPositionsJS,
                yellowLetters |-> yellowLettersJS, grayLetters |-> grayLettersJS]
    /\ ret' = filterWords(wordsJS, knownPositionsJS, yellowLettersJS, grayLettersJS)
    /\ UNCHANGED <<allWords, possibleAnswers, lastSet, input>>

\* filterWords that keeps its result as the candidate set
FilterWords_storesResult(wordsJS, knownPositionsJS, yellowLettersJS, grayLettersJS) ==
    /\ op' = "filterWords"
    /\ args' = [words |-> wordsJS, knownPositions |-> knownPositionsJS,
                yellowLetters |-> yellowLettersJS, grayLetters |-> grayLettersJS]
    /\ ret' = filterWords(wordsJS, knownPositionsJS, yellowLettersJS, grayLettersJS)
    /\ possibleAnswers' = ret'.value
    /\ UNCHANGED <<allWords, lastSet, input>>

FilterWords(wordsJS, knownPositionsJS, yellowLettersJS, grayLettersJS) ==
    FilterCall("filterWords", wordsJS, knownPositionsJS, yellowLettersJS,
               grayLettersJS)

(***************************************************************************)
(* filterWords as a function of its arguments: one call, then a second     *)
(* call on the first call's result with the same constraints               *)
(***************************************************************************)
FilterPool == {<<"A", "B">>, <<"B", "A">>, <<"a", "a">>}
KnownEntries == {<<>>, <<"A">>, <<"b">>}
KnownDomain ==
    [1..2 -> KnownEntries]
        \cup {<<>>, << <<>>, <<>>, <<"A">> >>, << <<"A">>, <<>>, <<"b">> >>}
ExclDomain == {<<>>, <<0>>, <<1>>, <<2>>, <<-1>>, <<0, 1>>, <<-1, 7>>}
YellowItems == [letter : {<<"A">>, <<"b">>}, excludedPositions : ExclDomain]
YellowDomain ==
    {<<>>} \cup {<<y>> : y \in YellowItems}
        \cup {<<[letter |-> <<"A">>, excludedPositions |-> e1],
                [letter |-> <<"b">>, excludedPositions |-> e2]>> :
                 e1 \in {<<0>>, <<-1, 7>>}, e2 \in {<<>>, <<1>>}}
GrayDomain ==
    {<<>>, << <<"A">> >>, << <<"b">> >>, << <<"c">> >>, << <<>> >>,
     << <<>>, <<"b">> >>}

FilterFirst ==
    /\ op = "input"
    /\ FilterWords(input.words, input.knownPositions, input.yellowLetters,
                   input.grayLetters)

FilterAgain ==
    /\ op = "filterWords"
    /\ FilterCall("filterWordsAgain", ret.value, args.knownPositions,
                  args.yellowLetters, args.grayLetters)

InitFilter ==
    /\ allWords = <<>>
    /\ possibleAnswers = <<>>
    /\ lastSet = [allWordsJS |-> <<>>, possibleAnswersJS |-> <<>>]
    /\ input \in [words : Lists(FilterPool, MaxWords),
                  knownPositions : KnownDomain,
                  yellowLetters : YellowDomain,
                  grayLetters : GrayDomain]
    /\ op = "input"
    /\ args = <<>>
    /\ ret = [kind |-> "none"]

NextFilter == FilterFirst \/ FilterAgain

SpecFilter == InitFilter /\ [][NextFilter]_vars

(***************************************************************************)
(* EntropyCalculator: setWordLists, calculateEntropy, calculateAllEntropies*)
(***************************************************************************)
\* lines 51-65: clear() followed by the push_back loop
ConvertedList(old, listJS) == ToUpperAll(listJS)

SetWordLists(allWordsJS, possibleAnswersJS) ==
    /\ allWords' = ConvertedList(allWords, allWordsJS)
    /\ possibleAnswers' = ConvertedList(possibleAnswers, possibleAnswersJS)
    /\ lastSet' = [allWordsJS |-> allWordsJS,
                   possibleAnswersJS |-> possibleAnswersJS]
    /\ op' = "setWordLists"
    /\ args' = [allWordsJS |-> allWordsJS, possibleAnswersJS |-> possibleAnswersJS]
    /\ ret' = [kind |-> "void"]
    /\ UNCHANGED input

\* the tally keyed by the answer instead of by its pattern
PatternCounts_byAnswer(upperGuess, answers, junk) ==
    [k \in 1..Len(answers) |-> 1]

\* lines 82-87: patternCounts[getPattern(upperGuess, answer)]++
PatternCounts(upperGuess, answers, junk) ==
    [p \in {getPattern(upperGuess, answers[k], junk) : k \in 1..Len(answers)} |->
        Cardinality({k \in 1..Len(answers) :
                        getPattern(upperGuess, answers[k], junk) = p})]

RECURSIVE ProdPow(_, _)
ProdPow(counts, keys) ==
    IF keys = {} THEN 1
    ELSE LET p == CHOOSE x \in keys : TRUE
         IN Pow(counts[p], counts[p]) * ProdPow(counts, keys \ {p})

\* lines 90-96: H = -SUM (c/total) log2(c/total), kept as 2^(total*H) = n^n/d
ShannonEntropy(counts, total) ==
    [n |-> total, d |-> ProdPow(counts, DOMAIN counts)]

\* 0.0
Zero == [n |-> 1, d |-> 1]

calculateEntropy(guessWord, answers, junk) ==
    IF Len(answers) <= 1 THEN Zero
    ELSE ShannonEntropy(PatternCounts(ToUpperStr(guessWord), answers, junk),
                        Len(answers))

IsZero(e) == Pow(e.n, e.n) = e.d

\* a > b for two entropies over the same number of candidates
EntropyGreater(a, b) == a.d < b.d

\* the comparator with the order reversed
Comp_ascending(a, b) == EntropyGreater(b.first, a.first)

\* line 123: [](const auto& a, const auto& b) { return a.first > b.first; }
Comp(a, b) == EntropyGreater(a.first, b.first)

\* lines 113-119
EntropyPairs(words, answers, junk) ==
    [k \in 1..Len(words) |->
        [first |-> calculateEntropy(words[k], answers, junk), second |-> words[k]]]

Perms(n) == {f \in [1..n -> 1..n] : \A i, j \in 1..n : f[i] = f[j] => i = j}

\* line 122: std::sort leaves elements that compare equivalent in an
\* unspecified order: every ordered permutation is a possible result
SortOutcomes(pairs) ==
    {out \in {[k \in 1..Len(pairs) |-> pairs[f[k]]] : f \in Perms(Len(pairs))} :
        \A i, j \in 1..Len(pairs) : i < j => ~Comp(out[j], out[i])}

\* lines 126-132 (bitsOfInfo, the entropy rounded to two decimals, is not kept)
ToResults(sorted) ==
    [k \in 1..Len(sorted) |->
        [word |-> sorted[k].second, entropy |-> sorted[k].first]]

CalculateEntropy(guessWord) ==
    /\ \E junk \in Junk :
          ret' = [kind |-> "double",
                  value |-> calculateEntropy(guessWord, possibleAnswers, junk)]
    /\ op' = "calculateEntropy"
    /\ args' = [guessWord |-> guessWord]
    /\ UNCHANGED <<allWords, possibleAnswers, lastSet, input>>

CalculateAllEntropies ==
    /\ IF Len(possibleAnswers) = 0
       THEN ret' = [kind |-> "array", value |-> <<>>]
       ELSE \E junk \in Junk :
            \E sorted \in SortOutcomes(EntropyPairs(allWords, possibleAnswers, junk)) :
               ret' = [kind |-> "array", value |-> ToResults(sorted)]
    /\ op' = "calculateAllEntropies"
    /\ args' = <<>>
    /\ UNCHANGED <<allWords, possibleAnswers, lastSet, input>>

(***************************************************************************)
(* Ranking as a function of the word lists: setWordLists, then one of      *)
(* calculateEntropy and calculateAllEntropies                              *)
(***************************************************************************)
RankPool == {<<"A", "B">>, <<"b", "a">>, <<"C", "C">>}

RankSet ==
    /\ op = "input"
    /\ SetWordLists(input.allWordsJS, input.possibleAnswersJS)

RankEntropy ==
    /\ op = "setWordLists"
    /\ CalculateEntropy(input.guessWord)

RankAll ==
    /\ op = "setWordLists"
    /\ CalculateAllEntropies

InitRank ==
    /\ allWords = <<>>
    /\ possibleAnswers = <<>>
    /\ lastSet = [allWordsJS |-> <<>>, possibleAnswersJS |-> <<>>]
    /\ input \in [allWordsJS : Lists(RankPool, MaxDict),
                  possibleAnswersJS : Lists(RankPool, MaxCand),
                  guessWord : RankPool]
    /\ op = "input"
    /\ args = <<>>
    /\ ret = [kind |-> "none"]

NextRank == RankSet \/ RankEntropy \/ RankAll

SpecRank == InitRank /\ [][NextRank]_vars

(***************************************************************************)
(* One EntropyCalculator under any sequence of calls                       *)
(***************************************************************************)
ObjLists == Lists(RankPool, MaxObjWords)
ObjConstraints ==
    {[knownPositions |-> <<>>, yellowLetters |-> <<>>, grayLetters |-> <<>>],
     [knownPositions |-> << <<"A">>, <<>> >>, yellowLetters |-> <<>>,
      grayLetters |-> << <<"c">> >>],
     [knownPositions |-> <<>>,
      yellowLetters |-> <<[letter |-> <<"b">>, excludedPositions |-> <<0>>]>>,
      grayLetters |-> <<>>]}

Init ==
    /\ allWords = <<>>
    /\ possibleAnswers = <<>>
    /\ lastSet = [allWordsJS |-> <<>>, possibleAnswersJS |-> <<>>]
    /\ input = <<>>
    /\ op = "init"
    /\ args = <<>>
    /\ ret = [kind |-> "none"]

Next ==
    \/ \E allWordsJS \in ObjLists, possibleAnswersJS \in ObjLists :
          SetWordLists(allWordsJS, possibleAnswersJS)
    \/ \E guessWord \in RankPool : CalculateEntropy(guessWord)
    \/ CalculateAllEntropies
    \/ \E wordsJS \in ObjLists, c \in ObjConstraints :
          FilterWords(wordsJS, c.knownPositions, c.yellowLetters, c.grayLetters)

Spec == Init /\ [][Next]_vars

(***************************************************************************)
(* Claims about the pattern encoders (checked under SpecPattern)           *)
(***************************************************************************)
CountIn(s, c) == Cardinality({k \in 1..Len(s) : s[k] = c})

Digit(m) == CASE m = "G" -> 2 [] m = "Y" -> 1 [] OTHER -> 0

RECURSIVE Base3From(_, _)
Base3From(pat, k) ==
    IF k > Len(pat) THEN 0
    ELSE Digit(pat[k]) * Pow(3, Len(pat) - k) + Base3From(pat, k + 1)

Base3(pat) == Base3From(pat, 1)

\* C1: for a guess and a target of equal length, position i is G iff
\* guess[i] = target[i]; a remaining position is Y iff the occurrences of its
\* letter in the target, minus the exact matches of that letter, minus the
\* earlier Y marks of that letter, is still positive, and B otherwise; and for
\* every letter the non-B positions holding it number
\* min(count in guess, count in target).
C1_TwoPassRule ==
    (op = "getPattern" /\ ret.kind = "pattern"
        /\ Len(args.guess) = Len(args.target)) =>
    LET g == args.guess
        t == args.target
        r == ret.value
        exact(c) == Cardinality({k \in 1..Len(g) : g[k] = c /\ t[k] = c})
        earlier(c, i) == Cardinality({k \in 1..(i - 1) : g[k] = c /\ r[k] = "Y"})
        avail(i) == CountIn(t, g[i]) - exact(g[i]) - earlier(g[i], i)
    IN /\ Len(r) = Len(g)
       /\ \A i \in 1..Len(g) :
            /\ r[i] \in {"G", "Y", "B"}
            /\ (r[i] = "G") <=> (g[i] = t[i])
            /\ (r[i] = "Y") <=> (g[i] # t[i] /\ avail(i) > 0)
            /\ (r[i] = "B") <=> (g[i] # t[i] /\ avail(i) <= 0)
       /\ \A c \in PatLetters :
            Cardinality({k \in 1..Len(g) : g[k] = c /\ r[k] # "B"})
                = Min(CountIn(g, c), CountIn(t, c))

\* a guess with a repeated letter, one occurrence Present and the next Absent
\* because the target's supply of that letter is used up
C1_Witness ==
    /\ op = "getPattern"
    /\ ret.kind = "pattern"
    /\ Len(args.guess) = Len(args.target)
    /\ \E i, j \in 1..Len(args.guess) :
          /\ i < j
          /\ args.guess[i] = args.guess[j]
          /\ ret.value[i] = "Y"
          /\ ret.value[j] = "B"
          /\ CountIn(args.target, args.guess[j]) > 0

\* C2: whenever the guess and the target differ in length the encoder ends in
\* an error and returns no pattern.
C2_LengthMismatchIsError ==
    (op \in {"getPattern", "get_pattern"}
        /\ Len(args.guess) # Len(args.target)) =>
    ret.kind \notin {"pattern", "int"}

\* C10: for a guess and an answer of the same length L <= 10, with
\* word_length = L, get_pattern returns the base-3 value (most significant
\* position first, G = 2, Y = 1, B = 0) of getPattern's string; when the guess
\* equals the answer both give the all-Exact pattern, 3^L - 1.
C10_EncodersAgree ==
    (op = "get_pattern" /\ ret.kind = "int"
        /\ Len(args.guess) = Len(args.target)
        /\ args.word_length = Len(args.guess)
        /\ args.word_length <= UsedSize) =>
    /\ ret.value = Base3(getPattern(args.guess, args.target, NUL))
    /\ (args.guess = args.target) =>
          /\ ret.value = Pow(3, args.word_length) - 1
          /\ getPattern(args.guess, args.target, NUL)
                = [k \in 1..Len(args.guess) |-> "G"]

\* guess AAB against BBA: Present, Absent, Present = 1*9 + 0*3 + 1
C10_Witness ==
    /\ op = "get_pattern"
    /\ ret.kind = "int"
    /\ args.guess = <<"A", "A", "B">>
    /\ args.target = <<"B", "B", "A">>
    /\ args.word_length = 3
    /\ ret.value = 10

(***************************************************************************)
(* Claims about filterWords (checked under SpecFilter)                     *)
(***************************************************************************)
\* r is the subsequence of W at the indices in S, in W's order
IsSelection(r, W, S) ==
    /\ Len(r) = Cardinality(S)
    /\ \A m \in 1..Len(r) :
          \E k \in S : /\ Cardinality({j \in S : j < k}) = m - 1
                       /\ r[m] = W[k]

\* Green, every constrained position: the word has the required letter there
GreenClause(w, kp) ==
    \A i \in 0..(Len(kp) - 1) :
        Len(kp[i + 1]) # 0 =>
            (i < Len(w) /\ w[i + 1] = toupper(kp[i + 1][1]))

\* Green, the constrained positions that are indices of the word
GreenClauseInRange(w, kp) ==
    \A i \in 0..(Len(kp) - 1) :
        (Len(kp[i + 1]) # 0 /\ i < Len(w)) =>
            w[i + 1] = toupper(kp[i + 1][1])

YellowClause(w, yl) ==
    \A k \in 1..Len(yl) :
        LET c == toupper(yl[k].letter[1])
            excl == yl[k].excludedPositions
        IN /\ \E p \in 1..Len(w) : w[p] = c
           /\ \A m \in 1..Len(excl) :
                 ~(excl[m] \in 0..(Len(w) - 1) /\ w[excl[m] + 1] = c)

GrayClause(w, gl) ==
    \A k \in 1..Len(gl) :
        Len(gl[k]) # 0 => \A p \in 1..Len(w) : w[p] # toupper(gl[k][1])

IsFilterCall == op \in {"filterWords", "filterWordsAgain"}

\* C4 as stated: the result is exactly the (uppercased) input words, in input
\* order, that have the required letter at every Green position, contain
\* every Yellow letter but not at its excluded positions, and contain no Gray
\* letter.
C4_ExactlyTheSatisfyingWords ==
    IsFilterCall =>
    LET W == ToUpperAll(args.words)
    IN IsSelection(ret.value, W,
           {k \in 1..Len(W) :
               /\ GreenClause(W[k], args.knownPositions)
               /\ YellowClause(W[k], args.yellowLetters)
               /\ GrayClause(W[k], args.grayLetters)})

\* C4 amended: as C4, the Green clause ranging over the constrained positions
\* that are indices of the word (a required letter at a position at or past
\* the end of the word is ignored).
C4_ExactlyTheSatisfyingWordsInRange ==
    IsFilterCall =>
    LET W == ToUpperAll(args.words)
    IN IsSelection(ret.value, W,
           {k \in 1..Len(W) :
               /\ GreenClauseInRange(W[k], args.knownPositions)
               /\ YellowClause(W[k], args.yellowLetters)
               /\ GrayClause(W[k], args.grayLetters)})

\* all three kinds of constraint are active, one word is kept and one dropped
C4_Witness ==
    /\ op = "filterWords"
    /\ Len(ret.value) > 0
    /\ \E i \in 1..Len(args.knownPositions) :
          Len(args.knownPositions[i]) # 0 /\ i <= Len(ret.value[1])
    /\ Len(args.yellowLetters) > 0
    /\ \E k \in 1..Len(args.grayLetters) : Len(args.grayLetters[k]) # 0
    /\ Len(ret.value) > 0
    /\ Len(ret.value) < Len(args.words)

\* C7: filtering the result of filterWords again with the same constraints
\* gives that result back.
C7_Idempotent ==
    (op = "filterWordsAgain") => ret.value = args.words

\* the first call dropped a word and kept one, and the second call has run
C7_Witness ==
    /\ op = "filterWordsAgain"
    /\ Len(args.words) > 0
    /\ Len(args.words) < Len(input.words)
    /\ Len(args.yellowLetters) > 0

RECURSIVE InRangeOnly(_, _, _)
InRangeOnly(excl, len, k) ==
    IF k > Len(excl) THEN <<>>
    ELSE (IF excl[k] >= 0 /\ excl[k] < len THEN <<excl[k]>> ELSE <<>>)
            \o InRangeOnly(excl, len, k + 1)

StripOutOfRange(yellowLetters, len) ==
    [k \in 1..Len(yellowLetters) |->
        [letter |-> yellowLetters[k].letter,
         excludedPositions |->
             InRangeOnly(yellowLetters[k].excludedPositions, len, 1)]]

HasOutOfRange(yellowLettersJS, len) ==
    \E k \in 1..Len(yellowLettersJS) :
        \E m \in 1..Len(yellowLettersJS[k].excludedPositions) :
            LET pos == yellowLettersJS[k].excludedPositions[m]
            IN pos < 0 \/ pos >= len

\* C8: an excluded position that is no index of the word (negative, or at or
\* past its length) is ignored: no word is read out of bounds, and the result
\* is the one obtained with those positions removed from the constraint.
C8_OutOfRangeIgnored ==
    IsFilterCall =>
    LET W == ToUpperAll(args.words)
    IN /\ ~ret.oob
       /\ IsSelection(ret.value, W,
              {k \in 1..Len(W) :
                  CheckWord(W[k], ToUpperAll(args.knownPositions),
                            StripOutOfRange(ConvertYellow(args.yellowLetters),
                                            Len(W[k])),
                            ToUpperAll(args.grayLetters)).valid})

\* a Yellow constraint with a negative and a too large excluded position has
\* been applied to a word that passes the other checks
C8_Witness ==
    /\ op = "filterWords"
    /\ \E k \in 1..Len(args.yellowLetters) :
          args.yellowLetters[k].excludedPositions = <<-1, 7>>
    /\ Len(ret.value) > 0
    /\ Len(ret.value) < Len(args.words)

(***************************************************************************)
(* Claims about the entropy and the ranking (checked under SpecRank)       *)
(***************************************************************************)
PatternsOf(guessWord, answers) ==
    {getPattern(ToUpperStr(guessWord), answers[k], NUL) : k \in 1..Len(answers)}

NoDuplicates(list) ==
    \A i, j \in 1..Len(list) : list[i] = list[j] => i = j

\* C3 as stated, for a candidate set (no word twice): the entropy is 0 iff
\* there is at most one candidate; with N >= 2 candidates it is strictly
\* positive (n^n > d) and at most log2(N) (d >= 1).
C3_ZeroIffAtMostOneCandidate ==
    (op = "calculateEntropy" /\ NoDuplicates(possibleAnswers)) =>
    /\ IsZero(ret.value) <=> (Len(possibleAnswers) <= 1)
    /\ Len(possibleAnswers) >= 2 =>
          (ret.value.d < Pow(ret.value.n, ret.value.n) /\ ret.value.d >= 1)

\* C3 amended: the entropy is 0 iff there is at most one candidate or every
\* candidate gives the guess the same pattern; it is never negative and never
\* more than log2(N), and with N >= 2 candidates that give the guess at least
\* two distinct patterns it is strictly positive.
C3_ZeroIffOnePattern ==
    (op = "calculateEntropy") =>
    LET N == Len(possibleAnswers)
        pats == PatternsOf(args.guessWord, possibleAnswers)
        e == ret.value
    IN /\ IsZero(e) <=> (N <= 1 \/ Cardinality(pats) = 1)
       /\ e.d >= 1
       /\ e.d <= Pow(e.n, e.n)
       /\ N >= 2 => e.n = N
       /\ (N >= 2 /\ Cardinality(pats) >= 2) => e.d < Pow(e.n, e.n)

\* three candidates split two to one by the guess: strictly between 0 and
\* log2(3)
C3_Witness ==
    /\ op = "calculateEntropy"
    /\ Len(possibleAnswers) = 3
    /\ NoDuplicates(possibleAnswers)
    /\ Cardinality(PatternsOf(args.guessWord, possibleAnswers)) = 2
    /\ ret.value = [n |-> 3, d |-> 4]

NonIncreasing(results) ==
    \A i, j \in 1..Len(results) :
        i < j => ~EntropyGreater(results[j].entropy, results[i].entropy)

RECURSIVE LexLessFrom(_, _, _)
LexLessFrom(a, b, k) ==
    IF k > Len(b) THEN FALSE
    ELSE IF k > Len(a) THEN TRUE
    ELSE IF a[k] # b[k] THEN Ord(a[k]) < Ord(b[k])
    ELSE LexLessFrom(a, b, k + 1)

\* C6: words of equal entropy come in ascending lexicographic order, so the
\* result does not depend on the order of the dictionary.
C6_TiesInLexicographicOrder ==
    (op = "calculateAllEntropies") =>
    \A i, j \in 1..Len(ret.value) :
        (i < j /\ ret.value[i].entropy = ret.value[j].entropy) =>
            ~LexLessFrom(ret.value[j].word, ret.value[i].word, 1)

(***************************************************************************)
(* Claim about the stored word lists (checked under Spec)                  *)
(***************************************************************************)
\* C9: after any sequence of calls the stored lists are the uppercased
\* arguments of the most recent setWordLists (empty if there was none).
C9_ListsAreLastSet ==
    /\ allWords = ToUpperAll(lastSet.allWordsJS)
    /\ possibleAnswers = ToUpperAll(lastSet.possibleAnswersJS)

\* filterWords has returned fewer words than the stored candidate set holds
C9_Witness ==
    /\ op = "filterWords"
    /\ Len(possibleAnswers) > 0
    /\ Len(allWords) > 0
    /\ Len(args.words) > 0
    /\ Len(ret.value) = 0

====
